---- MODULE Spec2Model ----
(***************************************************************************)
(* Model of app/handlers/websocket.py: the websocket session handler that  *)
(* takes a registered worker out of the registry on connect, acknowledges, *)
(* and drives the host-metrics push loop through a 16-thread executor.     *)
(*                                                                         *)
(* One WebsocketHandler instance is one element of Sessions.  The tornado  *)
(* runtime is modelled by what it does to the handler: callbacks run one   *)
(* at a time on the IOLoop, every await is a separate step, close() drops  *)
(* ws_connection (so later writes raise WebSocketClosedError) and on_close *)
(* runs when the connection is torn down.                                  *)
(***************************************************************************)
EXTENDS Integers, Sequences, FiniteSets, TLC

\* ---------------------------------------------------------------- bounds

\* Handler instances (connection attempts) that are tracked individually.
Sessions == {"s1", "s2"}
\* Tokens the registration collaborator may mint.
Tokens == {"t1", "t2"}
\* Inbound text frames a client may send.
Texts == {"ping"}
\* Collector calls the tracked sessions may submit, all together.
MaxFetch == 2
\* Inbound frames the tracked sessions may receive, all together.
MaxMsgs == 1

\* ------------------------------------------------------- program constants

\* executor = ThreadPoolExecutor(max_workers=16)
max_workers == 16

None == "None"
\* The request carries no id argument at all.
NoArg == <<>>
\* The id query values tried: every token, one never registered, the empty one.
Ids == Tokens \cup {"ghost", ""}
Requests == {NoArg} \cup {<<i>> : i \in Ids}

\* The frames written with write_message (close frames are not recorded).
AckText == "connected to monitor, transmitting data..."
Ack == [kind |-> "ack", text |-> AckText, k |-> 0]
\* Mutant: the reply is built without the text that came in.
EchoBare(message) == [kind |-> "echo", text |-> "message received", k |-> 0]
\* 'message received %s' % message
Echo(message) == [kind |-> "echo", text |-> "message received " \o message, k |-> 0]
\* A serialized snapshot is opaque; k is the number of the fetch that made it.
Snap(k) == [kind |-> "snap", text |-> "", k |-> k]

NoData == [r |-> "none", k |-> 0]

VARIABLES
    workers,     \* the registry: tokens that currently map to a worker
    wstate,      \* Worker state: "none" (not created), pending, bound, closed
    whandler,    \* Worker.handler
    conn,        \* per handler: "new", "open", "closing", "closed", "aborted"
    request,     \* per handler: the id argument of its request
    callbacks,   \* per handler: the coroutines open() handed to add_callback
    worker_ref,  \* per handler: referent of self.worker_ref, or None
    pc,          \* per handler: where its monitor coroutine stands
    data,        \* per handler: result of the awaited collector call
    sent,        \* per handler: frames written to the socket, in order
    nfetch,      \* per handler: collector calls submitted so far
    inbox,       \* per handler: inbound text frames delivered to on_message
    late,        \* per handler: collector calls submitted after the socket closed
    lateSnap,    \* per handler: non-empty results taken up after the socket closed
    writing,     \* handlers whose snapshot write has not completed yet
    onclose,     \* per handler: times on_close ran
    queue,       \* executor work queue (FIFO) of tracked calls
    running,     \* tracked calls a pool thread is executing
    bgBusy       \* pool threads executing calls of sessions not tracked here

vars == <<workers, wstate, whandler, conn, request, callbacks, worker_ref, pc,
          data, sent, nfetch, inbox, late, lateSnap, writing, onclose, queue,
          running, bgBusy>>

workerVars == <<workers, wstate, whandler>>
poolVars == <<queue, running, bgBusy>>
loopVars == <<pc, data, nfetch, late, lateSnap, writing>>

Range(q) == {q[i] : i \in 1..Len(q)}

RECURSIVE Sum(_, _)
Sum(f, S) == IF S = {} THEN 0
             ELSE LET x == CHOOSE y \in S : TRUE IN f[x] + Sum(f, S \ {x})

\* What the bounds have left.
FetchesLeft == MaxFetch - Sum(nfetch, Sessions)
MsgsLeft == MaxMsgs - Sum([s \in Sessions |-> Len(inbox[s])], Sessions)

\* ------------------------------------------------------------------ Init

\* __init__: worker_ref = None; nothing registered, pool idle.
Init ==
    /\ workers = {}
    /\ wstate = [w \in Tokens |-> "none"]
    /\ whandler = [w \in Tokens |-> None]
    /\ conn = [s \in Sessions |-> "new"]
    /\ request = [s \in Sessions |-> NoArg]
    /\ callbacks = [s \in Sessions |-> <<>>]
    /\ worker_ref = [s \in Sessions |-> None]
    /\ pc = [s \in Sessions |-> "idle"]
    /\ data = [s \in Sessions |-> NoData]
    /\ sent = [s \in Sessions |-> <<>>]
    /\ nfetch = [s \in Sessions |-> 0]
    /\ inbox = [s \in Sessions |-> <<>>]
    /\ late = [s \in Sessions |-> 0]
    /\ lateSnap = [s \in Sessions |-> 0]
    /\ writing = {}
    /\ onclose = [s \in Sessions |-> 0]
    /\ queue = <<>>
    /\ running = {}
    /\ bgBusy = 0

\* ------------------------------------------------- registry and Worker

\* registerWorker: the collaborator mints a fresh token and stores a pending
\* Worker under it.
Register(t) ==
    /\ wstate[t] = "none"
    /\ workers' = workers \cup {t}
    /\ wstate' = [wstate EXCEPT ![t] = "pending"]
    /\ UNCHANGED <<whandler, conn, request, callbacks, worker_ref, loopVars,
                   sent, inbox, onclose, poolVars>>

\* Mutant: an id that is not registered falls back to any pending worker.
PoppedAny(id) ==
    IF id \in workers THEN id
    ELSE IF workers # {} THEN CHOOSE w \in workers : TRUE ELSE None

\* workers.pop(id, None): the value returned.
Popped(id) == IF id \in workers THEN id ELSE None

\* Mutant: workers.get(id) in place of pop, the entry stays in the registry.
AfterGet(id) == workers

\* workers.pop(id, None): the registry afterwards.
AfterPop(id) == workers \ {id}

\* Worker.set_handler: the handler is set once; the Worker is now bound.
SetHandler(w, s) ==
    /\ whandler' = [whandler EXCEPT ![w] = IF @ = None THEN s ELSE @]
    /\ wstate' = [wstate EXCEPT ![w] = IF @ = "pending" THEN "bound" ELSE @]

\* Worker.close.
WorkerClose(w) == [wstate EXCEPT ![w] = "closed"]

\* ------------------------------------------------------------ the socket

\* Mutant: close() on a handler that is already closed starts another closing
\* handshake, so its teardown runs again.
CloseConnAgain(s) == [conn EXCEPT ![s] = "closing"]

\* WebSocketHandler.close(): drops ws_connection and starts the closing
\* handshake; a no-op on a handler that is already closing or closed.
CloseConn(s) == IF conn[s] = "open" THEN [conn EXCEPT ![s] = "closing"] ELSE conn

\* Mutant: a write on a closed handler is dropped without raising.
CanWriteAlways(s) == TRUE

\* Mutant: only the handler's own close() makes a write raise; after a close
\* by the peer the write goes through.
CanWriteUnlessClosing(s) == conn[s] # "closing"

\* write_message raises WebSocketClosedError unless the connection is open.
CanWrite(s) == conn[s] = "open"

\* Mutant: the reference is shared by the handlers, so a handler that bound
\* no worker resolves it to one another handler bound.
ResolvedShared(s) ==
    IF worker_ref[s] = None
    THEN {None} \cup {w \in Tokens : wstate[w] = "bound"}
    ELSE {worker_ref[s], None}

\* self.worker_ref() if self.worker_ref else None: what the call can return.
\* The handler keeps weakref.ref(worker) only and the registry entry is gone
\* after pop, so the Worker lives on just as long as the collaborator that
\* created it still refers to it: the reference resolves to the Worker, or
\* to None once the Worker has been reclaimed.
Resolved(s) ==
    IF worker_ref[s] = None THEN {None} ELSE {worker_ref[s], None}

\* Mutant: on_close closes every worker that is bound, not only its own.
OnCloseAll(s, worker) ==
    /\ wstate' = [w \in Tokens |-> IF wstate[w] = "bound" THEN "closed" ELSE wstate[w]]
    /\ onclose' = [onclose EXCEPT ![s] = @ + 1]

\* on_close, with worker the value the weak reference resolved to: close it
\* if there is one.
OnClose(s, worker) ==
    /\ wstate' = IF worker # None THEN WorkerClose(worker) ELSE wstate
    /\ onclose' = [onclose EXCEPT ![s] = @ + 1]

\* Mutant: the start of the push loop is announced by its first snapshot
\* only, the acknowledgement is not written.
WriteMessageNoAck(s, frame) ==
    sent' = [sent EXCEPT ![s] = IF frame.kind = "ack" THEN @ ELSE Append(@, frame)]

\* self.write_message(frame) on an open handler: the frame goes out.
WriteMessage(s, frame) == sent' = [sent EXCEPT ![s] = Append(@, frame)]

\* self.get_argument('id'): the value, or MissingArgumentError (None here)
\* when the request has no such argument.
GetArgument(req) == IF req = NoArg THEN None ELSE req[1]

\* ---------------------------------------------- scheduling the push loop

Call(s) == [sess |-> s, k |-> nfetch[s] + 1]

Outstanding(s) == {c \in Range(queue) \cup running : c.sess = s}

Busy == Cardinality(running) + bgBusy

\* IOLoop.current().run_in_executor(executor, system_data) and the await on
\* its future: the call is put on the executor's work queue.  Beyond MaxFetch
\* calls the loop is followed no further (pc "out").
Submit(s) ==
    IF FetchesLeft > 0
    THEN /\ queue' = Append(queue, Call(s))
         /\ nfetch' = [nfetch EXCEPT ![s] = @ + 1]
         /\ late' = [late EXCEPT ![s] = IF conn[s] = "open" THEN @ ELSE @ + 1]
         /\ data' = [data EXCEPT ![s] = NoData]
         /\ pc' = [pc EXCEPT ![s] = "fetching"]
    ELSE /\ pc' = [pc EXCEPT ![s] = "out"]
         /\ UNCHANGED <<queue, nfetch, late, data>>

\* The coroutine the handler's callback runs ("none": nothing was scheduled).
Coroutine(s) == IF callbacks[s] = <<>> THEN "none" ELSE callbacks[s][1]

\* Mutant: open() calls the coroutine itself, which runs up to its first
\* await before open() returns.
RunInline(s, co) ==
    /\ callbacks' = [callbacks EXCEPT ![s] = Append(@, co)]
    /\ Submit(s)

\* Mutant: open() schedules the network loop next to the one asked for.
AddCallbackBoth(s, co) ==
    /\ callbacks' = [callbacks EXCEPT ![s] = Append(Append(@, co), "network")]
    /\ pc' = [pc EXCEPT ![s] = "scheduled"]
    /\ UNCHANGED <<data, nfetch, late, queue>>

\* IOLoop.current().add_callback(co): co starts on a later turn of the loop;
\* nothing of it runs inside open().
AddCallback(s, co) ==
    /\ callbacks' = [callbacks EXCEPT ![s] = Append(@, co)]
    /\ pc' = [pc EXCEPT ![s] = "scheduled"]
    /\ UNCHANGED <<data, nfetch, late, queue>>

\* Mutant: the unknown id is noticed but the connection is left open.
RejectNoClose(s) ==
    /\ conn' = [conn EXCEPT ![s] = "open"]
    /\ UNCHANGED <<wstate, whandler, worker_ref, callbacks, pc, sent, data,
                   nfetch, late, queue>>

\* if not worker: self.close(reason='Invalid worker id'); return
Reject(s) ==
    /\ conn' = [conn EXCEPT ![s] = "closing"]
    /\ UNCHANGED <<wstate, whandler, worker_ref, callbacks, pc, sent, data,
                   nfetch, late, queue>>

\* open(), for a request req = <<id>> or <<>> (no id argument).
Open(s, req) ==
    /\ conn[s] = "new"
    /\ request' = [request EXCEPT ![s] = req]
    /\ IF GetArgument(req) = None
       THEN \* get_argument raises before pop; tornado aborts the connection
            /\ conn' = [conn EXCEPT ![s] = "aborted"]
            /\ UNCHANGED <<workers, wstate, whandler, worker_ref, callbacks,
                           pc, sent, data, nfetch, late, queue>>
       ELSE LET worker == Popped(GetArgument(req)) IN
            /\ workers' = AfterPop(GetArgument(req))
            /\ IF worker = None
               THEN Reject(s)
               ELSE /\ conn' = [conn EXCEPT ![s] = "open"]
                    /\ SetHandler(worker, s)
                    /\ worker_ref' = [worker_ref EXCEPT ![s] = worker]
                    /\ WriteMessage(s, Ack)
                    /\ AddCallback(s, "monitor")
    /\ UNCHANGED <<lateSnap, writing, inbox, onclose, running, bgBusy>>

\* on_message: one reply frame; on a handler that is closing the write raises,
\* tornado logs it and aborts the connection, which runs on_close.
OnMessage(s, message) ==
    /\ conn[s] \in {"open", "closing"}
    /\ MsgsLeft > 0
    /\ inbox' = [inbox EXCEPT ![s] = Append(@, message)]
    /\ IF CanWrite(s)
       THEN /\ WriteMessage(s, Echo(message))
            /\ UNCHANGED <<conn, wstate, onclose>>
       ELSE /\ conn' = [conn EXCEPT ![s] = "closed"]
            /\ \E worker \in Resolved(s) : OnClose(s, worker)
            /\ UNCHANGED sent
    /\ UNCHANGED <<workers, whandler, request, callbacks, worker_ref, loopVars,
                   poolVars>>

\* The peer closes (close frame or lost stream): tornado runs on_close.
PeerClose(s) ==
    /\ conn[s] = "open"
    /\ conn' = [conn EXCEPT ![s] = "closed"]
    /\ \E worker \in Resolved(s) : OnClose(s, worker)
    /\ UNCHANGED <<workers, whandler, request, callbacks, worker_ref, loopVars,
                   sent, inbox, poolVars>>

\* The closing handshake the server started completes (or times out).
CloseDone(s) ==
    /\ conn[s] = "closing"
    /\ conn' = [conn EXCEPT ![s] = "closed"]
    /\ \E worker \in Resolved(s) : OnClose(s, worker)
    /\ UNCHANGED <<workers, whandler, request, callbacks, worker_ref, loopVars,
                   sent, inbox, poolVars>>

\* ------------------------------------------------ executor and push loop

\* The loop ends (return or raise): the finally clause runs self.close().
Finally(s) ==
    /\ pc' = [pc EXCEPT ![s] = "done"]
    /\ conn' = CloseConn(s)

\* Mutant: monitor() returns after its first snapshot (no loop), leaving the
\* socket open.
WriteAndReturn(s) ==
    /\ pc' = [pc EXCEPT ![s] = "done"]
    /\ UNCHANGED <<writing, data, nfetch, late, queue>>

\* Mutant: the write is started but not awaited; the next fetch is submitted
\* at once.
NoAwaitWrite(s) ==
    /\ writing' = writing \cup {s}
    /\ Submit(s)

\* await self.write_message(data): the loop waits for the write to complete.
AwaitWrite(s) ==
    /\ pc' = [pc EXCEPT ![s] = "writing"]
    /\ writing' = writing \cup {s}
    /\ UNCHANGED <<data, nfetch, late, queue>>

\* The callback open() scheduled runs monitor() up to its first await.
MonitorStart(s) ==
    /\ pc[s] = "scheduled"
    /\ Coroutine(s) = "monitor"
    /\ Submit(s)
    /\ UNCHANGED <<workerVars, conn, request, callbacks, worker_ref, sent, inbox,
                   lateSnap, writing, onclose, running, bgBusy>>

\* Mutant: a call that finds every thread busy is discarded.
PoolStartOrDrop ==
    /\ queue # <<>>
    /\ running' = IF Busy < max_workers THEN running \cup {Head(queue)} ELSE running
    /\ queue' = Tail(queue)
    /\ UNCHANGED <<workerVars, conn, request, callbacks, worker_ref, loopVars, sent,
                   inbox, onclose, bgBusy>>

\* Mutant: the pool starts a thread for every call (no max_workers).
HasFreeThreadAlways == TRUE

\* The pool runs at most max_workers threads.
HasFreeThread == Busy < max_workers

\* A free pool thread takes the oldest queued call.
PoolStart ==
    /\ queue # <<>>
    /\ HasFreeThread
    /\ running' = running \cup {Head(queue)}
    /\ queue' = Tail(queue)
    /\ UNCHANGED <<workerVars, conn, request, callbacks, worker_ref, loopVars, sent,
                   inbox, onclose, bgBusy>>

\* system_data() returns (a snapshot or an empty value) or raises; the
\* thread sets the future's result and is free again.
PoolFinish(c, r) ==
    /\ c \in running
    /\ running' = running \ {c}
    /\ data' = [data EXCEPT ![c.sess] = [r |-> r, k |-> c.k]]
    /\ UNCHANGED <<workerVars, conn, request, callbacks, worker_ref, pc, nfetch, late,
                   lateSnap, writing, sent, inbox, onclose, queue, bgBusy>>

\* Calls of the sessions not tracked here occupy bgBusy threads.  A level
\* that leaves a free thread for every tracked session behaves like level 0
\* (no tracked call ever waits), so only level 0 and the levels near
\* saturation are kept, and one step may start or finish several such calls.
CrowdLevels == {0} \cup {n \in 1..max_workers : n >= max_workers - Cardinality(Sessions)}

\* Untracked calls start on free threads (they are behind every tracked call
\* already queued).
BgStart(n) ==
    /\ queue = <<>>
    /\ n > bgBusy
    /\ Cardinality(running) + n <= max_workers
    /\ bgBusy' = n
    /\ UNCHANGED <<workerVars, conn, request, callbacks, worker_ref, loopVars, sent,
                   inbox, onclose, queue, running>>

\* Untracked calls finish.
BgFinish(n) ==
    /\ n < bgBusy
    /\ bgBusy' = n
    /\ UNCHANGED <<workerVars, conn, request, callbacks, worker_ref, loopVars, sent,
                   inbox, onclose, queue, running>>

\* monitor() resumes with the collector's result: an exception propagates
\* through finally; an empty value goes straight to the next fetch; a
\* snapshot is written (await self.write_message(data)), which raises
\* WebSocketClosedError on a closed handler and ends the loop.
Resume(s) ==
    /\ pc[s] = "fetching"
    /\ data[s].r # "none"
    /\ CASE data[s].r = "error" ->
                /\ Finally(s)
                /\ UNCHANGED <<sent, data, nfetch, late, lateSnap, writing, queue>>
         [] data[s].r = "empty" ->
                /\ Submit(s)
                /\ UNCHANGED <<sent, conn, lateSnap, writing>>
         [] data[s].r = "snap" ->
                /\ lateSnap' = [lateSnap EXCEPT ![s] = IF conn[s] = "open" THEN @ ELSE @ + 1]
                /\ IF CanWrite(s)
                   THEN /\ WriteMessage(s, Snap(data[s].k))
                        /\ AwaitWrite(s)
                        /\ UNCHANGED conn
                   ELSE /\ Finally(s)
                        /\ UNCHANGED <<sent, data, nfetch, late, writing, queue>>
    /\ UNCHANGED <<workerVars, request, callbacks, worker_ref, inbox, onclose, running,
                   bgBusy>>

\* The awaited write completes: the loop goes on to the next fetch, or, when
\* the stream was closed under it, the error is absorbed and the loop ends.
WriteDone(s, ok) ==
    /\ pc[s] = "writing"
    /\ s \in writing
    /\ writing' = writing \ {s}
    /\ IF ok
       THEN /\ Submit(s)
            /\ UNCHANGED conn
       ELSE /\ conn[s] # "open"
            /\ Finally(s)
            /\ UNCHANGED <<data, nfetch, late, queue>>
    /\ UNCHANGED <<workerVars, request, callbacks, worker_ref, sent, inbox, lateSnap,
                   onclose, running, bgBusy>>

\* ----------------------------------------------------- the network loop

\* A network snapshot as written; r tells whether the value fetched was empty.
NetFrame(r, k) == [kind |-> "net", text |-> r, k |-> k]

\* data = await network_data(): the coroutine waits for the collector, which
\* runs on the IOLoop, not in the executor.  Beyond MaxFetch calls the loop is
\* followed no further (pc "out").
NetworkAwait(s) ==
    IF FetchesLeft > 0
    THEN /\ nfetch' = [nfetch EXCEPT ![s] = @ + 1]
         /\ late' = [late EXCEPT ![s] = IF conn[s] = "open" THEN @ ELSE @ + 1]
         /\ data' = [data EXCEPT ![s] = NoData]
         /\ pc' = [pc EXCEPT ![s] = "net_fetching"]
    ELSE /\ pc' = [pc EXCEPT ![s] = "out"]
         /\ UNCHANGED <<nfetch, late, data>>

\* A callback scheduled with self.network runs it up to its first await.
NetworkStart(s) ==
    /\ pc[s] = "scheduled"
    /\ Coroutine(s) = "network"
    /\ NetworkAwait(s)
    /\ UNCHANGED <<workerVars, conn, request, callbacks, worker_ref, sent,
                   inbox, lateSnap, writing, onclose, poolVars>>

\* Mutant: network() tests the value like monitor() does (if data:).
NetworkResumeSkipEmpty(s, r) ==
    /\ pc[s] = "net_fetching"
    /\ CASE r = "error" ->
                /\ data' = [data EXCEPT ![s] = [r |-> r, k |-> nfetch[s]]]
                /\ Finally(s)
                /\ UNCHANGED <<sent, writing, nfetch, late>>
         [] r = "empty" ->
                /\ NetworkAwait(s)
                /\ UNCHANGED <<sent, writing, conn>>
         [] r = "snap" ->
                /\ data' = [data EXCEPT ![s] = [r |-> r, k |-> nfetch[s]]]
                /\ IF CanWrite(s)
                   THEN /\ WriteMessage(s, NetFrame(r, nfetch[s]))
                        /\ pc' = [pc EXCEPT ![s] = "net_writing"]
                        /\ writing' = writing \cup {s}
                        /\ UNCHANGED conn
                   ELSE /\ Finally(s)
                        /\ UNCHANGED <<sent, writing>>
                /\ UNCHANGED <<nfetch, late>>
    /\ UNCHANGED <<workerVars, request, callbacks, worker_ref, inbox,
                   lateSnap, onclose, poolVars>>

\* network() resumes with the result r of network_data(): an exception
\* propagates through finally; any value, empty or not, is written
\* (await self.write_message(data)), which raises on a closed handler and
\* ends the loop.
NetworkResume(s, r) ==
    /\ pc[s] = "net_fetching"
    /\ data' = [data EXCEPT ![s] = [r |-> r, k |-> nfetch[s]]]
    /\ IF r = "error"
       THEN /\ Finally(s)
            /\ UNCHANGED <<sent, writing>>
       ELSE IF CanWrite(s)
            THEN /\ WriteMessage(s, NetFrame(r, nfetch[s]))
                 /\ pc' = [pc EXCEPT ![s] = "net_writing"]
                 /\ writing' = writing \cup {s}
                 /\ UNCHANGED conn
            ELSE /\ Finally(s)
                 /\ UNCHANGED <<sent, writing>>
    /\ UNCHANGED <<workerVars, request, callbacks, worker_ref, inbox, nfetch,
                   late, lateSnap, onclose, poolVars>>

\* The awaited write of network() completes: on to the next fetch, or, the
\* stream having closed under it, the error is absorbed and the loop ends.
NetworkWriteDone(s, ok) ==
    /\ pc[s] = "net_writing"
    /\ s \in writing
    /\ writing' = writing \ {s}
    /\ IF ok
       THEN /\ NetworkAwait(s)
            /\ UNCHANGED conn
       ELSE /\ conn[s] # "open"
            /\ Finally(s)
            /\ UNCHANGED <<data, nfetch, late>>
    /\ UNCHANGED <<workerVars, request, callbacks, worker_ref, sent, inbox,
                   lateSnap, onclose, poolVars>>

\* -------------------------------------------------------- specification

Next ==
    \/ \E t \in Tokens : Register(t)
    \/ \E s \in Sessions, req \in Requests : Open(s, req)
    \/ \E s \in Sessions, m \in Texts : OnMessage(s, m)
    \/ \E s \in Sessions : PeerClose(s)
    \/ \E s \in Sessions : CloseDone(s)
    \/ \E s \in Sessions : MonitorStart(s)
    \/ PoolStart
    \/ \E c \in running, r \in {"snap", "empty", "error"} : PoolFinish(c, r)
    \/ \E n \in CrowdLevels : BgStart(n)
    \/ \E n \in CrowdLevels : BgFinish(n)
    \/ \E s \in Sessions : Resume(s)
    \/ \E s \in Sessions, ok \in BOOLEAN : WriteDone(s, ok)

Spec == Init /\ [][Next]_vars

\* The state Spec reaches when the connect of every handler but s1 has been
\* rejected for the unregistered id "ghost" and torn down: from here one
\* tracked session shares the pool with the untracked ones.
FairInit ==
    /\ workers = {}
    /\ wstate = [w \in Tokens |-> "none"]
    /\ whandler = [w \in Tokens |-> None]
    /\ conn = [s \in Sessions |-> IF s = "s1" THEN "new" ELSE "closed"]
    /\ request = [s \in Sessions |-> IF s = "s1" THEN NoArg ELSE <<"ghost">>]
    /\ callbacks = [s \in Sessions |-> <<>>]
    /\ worker_ref = [s \in Sessions |-> None]
    /\ pc = [s \in Sessions |-> "idle"]
    /\ data = [s \in Sessions |-> NoData]
    /\ sent = [s \in Sessions |-> <<>>]
    /\ nfetch = [s \in Sessions |-> 0]
    /\ inbox = [s \in Sessions |-> <<>>]
    /\ late = [s \in Sessions |-> 0]
    /\ lateSnap = [s \in Sessions |-> 0]
    /\ writing = {}
    /\ onclose = [s \in Sessions |-> IF s = "s1" THEN 0 ELSE 1]
    /\ queue = <<>>
    /\ running = {}
    /\ bgBusy = 0

\* The IOLoop runs every ready callback and resumes every coroutine whose
\* future is done; pool threads take queued work when free; collector calls
\* (tracked or not) return.  Clients and registration are under no
\* obligation.
Fairness ==
    /\ \A s \in Sessions : WF_vars(MonitorStart(s))
    /\ \A s \in Sessions : WF_vars(Resume(s))
    /\ \A s \in Sessions : WF_vars(\E ok \in BOOLEAN : WriteDone(s, ok))
    /\ WF_vars(PoolStart)
    /\ \A s \in Sessions :
           WF_vars(\E c \in Outstanding(s), r \in {"snap", "empty", "error"} : PoolFinish(c, r))
    /\ WF_vars(\E n \in CrowdLevels : BgFinish(n))

FairSpec == FairInit /\ [][Next]_vars /\ Fairness

\* The handler's two push loops side by side.  Nothing in the handler starts
\* network(); here handler s1 has been accepted for token t1 by an open()
\* that scheduled self.network in place of self.monitor, and every other
\* handler connects through open() as above.
LoopInit ==
    /\ workers = {}
    /\ wstate = [w \in Tokens |-> IF w = "t1" THEN "bound" ELSE "none"]
    /\ whandler = [w \in Tokens |-> IF w = "t1" THEN "s1" ELSE None]
    /\ conn = [s \in Sessions |-> IF s = "s1" THEN "open" ELSE "new"]
    /\ request = [s \in Sessions |-> IF s = "s1" THEN <<"t1">> ELSE NoArg]
    /\ callbacks = [s \in Sessions |-> IF s = "s1" THEN <<"network">> ELSE <<>>]
    /\ worker_ref = [s \in Sessions |-> IF s = "s1" THEN "t1" ELSE None]
    /\ pc = [s \in Sessions |-> IF s = "s1" THEN "scheduled" ELSE "idle"]
    /\ data = [s \in Sessions |-> NoData]
    /\ sent = [s \in Sessions |-> IF s = "s1" THEN <<Ack>> ELSE <<>>]
    /\ nfetch = [s \in Sessions |-> 0]
    /\ inbox = [s \in Sessions |-> <<>>]
    /\ late = [s \in Sessions |-> 0]
    /\ lateSnap = [s \in Sessions |-> 0]
    /\ writing = {}
    /\ onclose = [s \in Sessions |-> 0]
    /\ queue = <<>>
    /\ running = {}
    /\ bgBusy = 0

LoopNext ==
    \/ Next
    \/ \E s \in Sessions : NetworkStart(s)
    \/ \E s \in Sessions, r \in {"snap", "empty", "error"} : NetworkResume(s, r)
    \/ \E s \in Sessions, ok \in BOOLEAN : NetworkWriteDone(s, ok)

LoopSpec == LoopInit /\ [][LoopNext]_vars

\* ---------------------------------------------------------------- claims

\* The handlers whose open() ran with id = t, and those it bound to t.
Tried(t) == {s \in Sessions : conn[s] # "new" /\ request[s] = <<t>>}
Won(t) == {s \in Tried(t) : worker_ref[s] = t}
Accepted(s) == worker_ref[s] # None
Kinds(s, kind) == {i \in 1..Len(sent[s]) : sent[s][i].kind = kind}

\* C1: for every registered token t, over any interleaving of connects with
\* id=t, exactly one connect succeeds and binds the worker: a connect that
\* finds t in the registry takes it out and is accepted, every other connect
\* with t finds nothing and is rejected, and no worker is bound to two
\* sessions.
C1_HandoffOnce ==
    /\ [](\A t \in Tokens :
            /\ Cardinality(Won(t)) <= 1
            /\ (Won(t) # {}) <=> (wstate[t] \in {"bound", "closed"})
            /\ (t \in workers) <=> (wstate[t] = "pending")
            /\ whandler[t] \in Won(t) \cup {None}
            /\ \A s \in Tried(t) \ Won(t) :
                   /\ conn[s] \in {"closing", "closed"}
                   /\ worker_ref[s] = None
                   /\ pc[s] = "idle")
    /\ [][\A t \in Tokens, s \in Sessions :
            (conn[s] = "new" /\ conn'[s] # "new" /\ request'[s] = <<t>>)
            => IF t \in workers
               THEN worker_ref'[s] = t /\ conn'[s] = "open" /\ t \notin workers'
               ELSE worker_ref'[s] = None /\ conn'[s] = "closing"]_vars

\* Two connects carried the token: the first was accepted and has ended, the
\* second, made afterwards or concurrently, was rejected.
C1_Witness ==
    \E t \in Tokens :
        /\ Cardinality(Tried(t)) = 2
        /\ \E s \in Won(t) : conn[s] = "closed"
        /\ \E s \in Tried(t) \ Won(t) : conn[s] = "closing"

\* C2: after a session's socket has closed and on_close has run, the worker
\* the session bound is closed; no worker stays bound behind a closed socket.
C2_WorkerClosedAfterClose ==
    \A s \in Sessions :
        (conn[s] = "closed" /\ worker_ref[s] # None)
        => wstate[worker_ref[s]] = "closed"

\* C3: on a session with a successful handoff the first outbound frame is the
\* literal acknowledgement; no snapshot and no echo reply precedes it.
C3_AckFirst ==
    \A s \in Sessions :
        /\ Accepted(s) =>
              /\ Len(sent[s]) >= 1
              /\ sent[s][1].kind = "ack"
              /\ sent[s][1].text = "connected to monitor, transmitting data..."
        /\ \A i \in 1..Len(sent[s]) : sent[s][i].kind = "ack" => i = 1

\* An accepted session that has sent the acknowledgement, an echo reply and
\* a snapshot.
C3_Witness ==
    \E s \in Sessions :
        /\ Accepted(s)
        /\ Kinds(s, "echo") # {}
        /\ Kinds(s, "snap") # {}

\* C4: a connect whose id is not in the registry is closed at once and never
\* has a data frame sent on it: no acknowledgement, no push loop scheduled,
\* no snapshot.
C4_RejectedSendsNothing ==
    \A s \in Sessions :
        (conn[s] # "new" /\ request[s] # NoArg /\ worker_ref[s] # request[s][1])
        => /\ conn[s] \in {"closing", "closed"}
           /\ worker_ref[s] = None
           /\ sent[s] = <<>>
           /\ pc[s] = "idle"
           /\ nfetch[s] = 0
           /\ Outstanding(s) = {}

\* A connect with the unregistered id "ghost" was rejected, a frame came in
\* on it afterwards, and its teardown has run.
C4_Witness ==
    \E s \in Sessions :
        /\ request[s] = <<"ghost">>
        /\ conn[s] = "closed"
        /\ inbox[s] # <<>>

\* C5: every inbound text frame delivered to on_message yields exactly one
\* reply frame "message received <text>", at any point of the connection's
\* life (stated as: the reply frames sent are the replies to the frames
\* delivered, in order).
C5_EveryInboundReplied ==
    \A s \in Sessions :
        SelectSeq(sent[s], LAMBDA f : f.kind = "echo")
          = [i \in 1..Len(inbox[s]) |->
                [kind |-> "echo", text |-> "message received " \o inbox[s][i], k |-> 0]]

\* C5, amended: an inbound frame delivered while the handler is open yields
\* exactly one reply "message received <text>"; one delivered after the
\* handler started closing (or was rejected at open) yields no frame.
C5_RepliedWhileOpen ==
    [][\A s \in Sessions :
          inbox'[s] # inbox[s] =>
             LET m == inbox'[s][Len(inbox'[s])] IN
             IF conn[s] = "open"
             THEN sent'[s] = Append(sent[s],
                      [kind |-> "echo", text |-> "message received " \o m, k |-> 0])
             ELSE sent'[s] = sent[s]]_vars

\* A frame came in while the push loop was waiting for its snapshot write and
\* was replied to after that snapshot.
C5_Witness ==
    \E s \in Sessions :
        /\ pc[s] = "writing"
        /\ inbox[s] = <<"ping">>
        /\ sent[s][Len(sent[s])].text = "message received ping"

\* C6: per session the snapshot frames go out in the order the snapshots were
\* fetched and fetch/write cycles do not overlap: at most one collector call
\* outstanding, at most one snapshot write in progress, and no call
\* outstanding while a write is in progress.
C6_Sequential ==
    \A s \in Sessions :
        /\ Cardinality(Outstanding(s)) <= 1
        /\ \A c \in Outstanding(s) :
               /\ pc[s] = "fetching"
               /\ data[s].r = "none"
               /\ s \notin writing
               /\ c.k = nfetch[s]
               /\ \A i \in Kinds(s, "snap") : sent[s][i].k < c.k
        /\ s \in writing =>
               /\ pc[s] = "writing"
               /\ sent[s][Len(sent[s])].kind \in {"snap", "echo"}
        /\ \A i, j \in Kinds(s, "snap") : i < j => sent[s][i].k < sent[s][j].k

\* A session has written two snapshots while the other session is bound too.
C6_Witness ==
    \E s, o \in Sessions :
        /\ s # o
        /\ Cardinality(Kinds(s, "snap")) >= 2
        /\ Accepted(o)

\* C7: with all 16 pool threads busy a further collector submission neither
\* fails nor is dropped: the call stays queued with its loop suspended, and
\* (the pool being fair) it eventually runs, its result is delivered to that
\* loop and the loop goes on.
C7_SaturationSuspends ==
    /\ [](\A s \in Sessions :
            (pc[s] = "fetching" /\ data[s].r = "none")
            => (Cardinality(Outstanding(s)) = 1 /\ conn[s] # "closing"))
    /\ [][\A c \in running :
            c \notin running' => (data'[c.sess].r # "none" /\ data'[c.sess].k = c.k)]_vars
    /\ \A s \in Sessions :
            (pc[s] = "fetching" /\ data[s].r = "none") ~> (data[s].r # "none")
    /\ \A s \in Sessions :
            (pc[s] = "fetching" /\ data[s].r # "none")
            ~> ~(pc[s] = "fetching" /\ data[s].r # "none")

\* A tracked call waits in the queue while all 16 threads are busy.
C7_Witness ==
    /\ Busy = 16
    /\ queue # <<>>

\* C8: after a successful handoff, while the socket stays open and the
\* collector does not fail, a further fetch is always eventually made (up to
\* the bound on calls) and every non-empty snapshot fetched is eventually
\* written.
C8_StreamKeepsFlowing ==
    /\ \A s \in Sessions :
            \/ []<><<nfetch'[s] > nfetch[s]>>_vars
            \/ []<>(\/ ~Accepted(s)
                    \/ conn[s] # "open"
                    \/ data[s].r = "error"
                    \/ pc[s] = "out")
    /\ \A s \in Sessions :
            (pc[s] = "fetching" /\ data[s].r = "snap")
            ~> (\/ \E i \in Kinds(s, "snap") : sent[s][i].k = data[s].k
                \/ conn[s] # "open")

\* Two snapshots fetched one after the other have both been written on a
\* socket that is still open.
C8_Witness ==
    \E s \in Sessions :
        /\ conn[s] = "open"
        /\ Cardinality(Kinds(s, "snap")) >= 2

\* C9: a connect with a missing or empty id is rejected and creates no
\* session: nothing is removed from the registry, no worker is bound, no
\* acknowledgement is sent and no push loop is scheduled.
C9_NoIdNoSession ==
    /\ [](\A s \in Sessions :
            (conn[s] # "new" /\ request[s] \in {NoArg, <<"">>})
            => /\ conn[s] \in {"aborted", "closing", "closed"}
               /\ worker_ref[s] = None
               /\ sent[s] = <<>>
               /\ pc[s] = "idle"
               /\ \A t \in Tokens : whandler[t] # s)
    /\ [][\A s \in Sessions :
            (conn[s] = "new" /\ conn'[s] # "new" /\ request'[s] \in {NoArg, <<"">>})
            => UNCHANGED <<workers, wstate, whandler, pc, sent>>]_vars

\* With a worker pending in the registry, one connect came without id and one
\* with the empty id; both are rejected and the worker is still pending.
C9_Witness ==
    \E s, o \in Sessions :
        /\ request[s] = NoArg /\ conn[s] = "aborted"
        /\ request[o] = <<"">> /\ conn[o] \in {"closing", "closed"}
        /\ workers # {}

\* C10: once the socket is closed the push loop performs at most one further
\* fetch before it exits.
C10_AtMostOneLateFetch == \A s \in Sessions : late[s] <= 1

\* C10, amended: once the socket is closed the push loop exits at the first
\* write it attempts, the error being absorbed: it takes up at most one
\* non-empty snapshot after the close and is done once it has; fetches that
\* return an empty value attempt no write and do not end the loop.
C10_EndsAtFirstLateSnapshot ==
    \A s \in Sessions :
        /\ lateSnap[s] <= 1
        /\ lateSnap[s] = 1 => (pc[s] = "done" /\ conn[s] # "open")

\* The socket closed during a write wait; the loop made one more fetch, whose
\* snapshot it could not write, and exited.
C10_Witness ==
    \E s \in Sessions :
        /\ late[s] = 1
        /\ lateSnap[s] = 1
        /\ Cardinality(Kinds(s, "snap")) = 1
        /\ pc[s] = "done"

\* The loop of s has ended with the socket closed behind it and its teardown
\* run once.
LoopEndClosesSocket(s) ==
    pc[s] = "done" =>
        /\ conn[s] \in {"closing", "closed"}
        /\ conn[s] = "closed" => onclose[s] = 1

\* C11: whichever way a push loop ends (absorbed close error, or an exception
\* of the collector or the write), its finally block closes the socket, so
\* the teardown runs and the session's worker is closed; a failed collector
\* call is not retried and the socket is never left open with no loop.
C11_LoopEndClosesWorker ==
    \A s \in Sessions :
        /\ LoopEndClosesSocket(s)
        /\ (pc[s] = "done" /\ conn[s] = "closed")
           => wstate[worker_ref[s]] = "closed"

\* C12: per session on_close runs exactly once per socket close, whichever
\* paths asked for the close: it runs in the step that takes the socket to
\* closed and never again, a close requested on a closed or closing socket
\* runs no teardown, and the worker of a closed session is not touched again.
C12_TeardownOnce ==
    /\ [](\A s \in Sessions :
            /\ onclose[s] <= 1
            /\ (conn[s] = "closed") <=> (onclose[s] = 1))
    /\ [][\A s \in Sessions :
            /\ onclose'[s] # onclose[s] =>
                  /\ conn[s] \in {"open", "closing"}
                  /\ conn'[s] = "closed"
                  /\ onclose'[s] = onclose[s] + 1
            /\ conn[s] = "closed" =>
                  /\ conn'[s] = "closed"
                  /\ onclose'[s] = onclose[s]
                  /\ worker_ref[s] # None =>
                        wstate'[worker_ref[s]] = wstate[worker_ref[s]]]_vars

\* The peer closed the socket first; the loop then failed to write a
\* snapshot and ran its finally close() on the closed socket: one teardown.
C12_Witness ==
    \E s \in Sessions :
        /\ conn[s] = "closed"
        /\ pc[s] = "done"
        /\ lateSnap[s] = 1
        /\ onclose[s] = 1

\* C13: a worker becomes closed only in the on_close of the session that took
\* it from the registry; no other step closes a worker, only registration
\* puts a worker into the registry, and a closed worker stays closed (a bound
\* one never returns to pending).
C13_SoleCloser ==
    [][\A t \in Tokens :
          /\ (wstate[t] # "closed" /\ wstate'[t] = "closed") =>
                /\ wstate[t] = "bound"
                /\ \E s \in Sessions :
                      /\ worker_ref[s] = t
                      /\ whandler[t] = s
                      /\ onclose'[s] = onclose[s] + 1
          /\ wstate[t] = "closed" => wstate'[t] = "closed"
          /\ wstate[t] = "bound" => wstate'[t] \in {"bound", "closed"}
          /\ (t \in workers' /\ t \notin workers) =>
                (wstate[t] = "none" /\ wstate'[t] = "pending")]_vars

\* Two sessions hold a worker each; one has been torn down and its worker is
\* closed, the other's worker is still bound.
C13_Witness ==
    \E s, o \in Sessions :
        /\ conn[s] = "closed"
        /\ Accepted(s) /\ wstate[worker_ref[s]] = "closed"
        /\ Accepted(o) /\ wstate[worker_ref[o]] = "bound"

\* C14: on a successful connect the push loop is never started inline: when
\* open() returns the worker is bound and the acknowledgement written, the
\* loop is only scheduled, and the session's first collector call is
\* submitted in a later step, by the scheduled callback.
C14_LoopNeverInline ==
    /\ [](\A s \in Sessions :
            pc[s] = "scheduled" =>
               /\ nfetch[s] = 0
               /\ Outstanding(s) = {}
               /\ sent[s] # <<>> /\ sent[s][1].kind = "ack"
               /\ Kinds(s, "snap") = {}
               /\ whandler[worker_ref[s]] = s)
    /\ [][\A s \in Sessions :
            /\ (conn[s] = "new" /\ conn'[s] = "open") =>
                  /\ pc'[s] = "scheduled"
                  /\ nfetch'[s] = 0
                  /\ queue' = queue /\ running' = running
                  /\ sent'[s] = <<[kind |-> "ack",
                                   text |-> "connected to monitor, transmitting data...",
                                   k |-> 0]>>
                  /\ worker_ref'[s] # None
                  /\ whandler'[worker_ref'[s]] = s
            /\ (nfetch[s] = 0 /\ nfetch'[s] > 0) =>
                  /\ conn[s] # "new"
                  /\ pc[s] = "scheduled"
                  /\ sent[s] # <<>> /\ sent[s][1].kind = "ack"]_vars

\* After open() and before the loop's first step an inbound frame was
\* handled: the reply follows the acknowledgement and nothing is fetched yet.
C14_Witness ==
    \E s \in Sessions :
        /\ pc[s] = "scheduled"
        /\ Len(sent[s]) = 2
        /\ sent[s][2].kind = "echo"

\* C15: at most 16 collector calls execute at any moment, over all sessions,
\* and none on the scheduler thread: a call starts and ends in steps of the
\* pool that run no handler code, the loop that awaits it is suspended, and
\* while calls are in flight the callbacks of every session can still run.
C15_PoolBounded ==
    /\ [](/\ Busy <= 16
          /\ \A c \in running :
                /\ pc[c.sess] = "fetching"
                /\ data[c.sess].r = "none"
          /\ \A c \in running, o \in Sessions :
                /\ pc[o] = "scheduled" => ENABLED MonitorStart(o)
                /\ conn[o] = "new" => ENABLED Open(o, NoArg)
                /\ conn[o] = "open" => ENABLED PeerClose(o))
    /\ [][running' # running =>
            UNCHANGED <<conn, pc, sent, nfetch, onclose, workerVars>>]_vars

\* The calls of both tracked sessions are executing and with those of the
\* other sessions they occupy all 16 threads.
C15_Witness ==
    /\ Cardinality(running) = 2
    /\ Busy = 16

\* C16: a session created by open() runs the host-metrics loop and only that
\* loop: open() schedules monitor once, never network, and the session never
\* has two loop iterations in flight.
C16_OnlyHostLoop ==
    \A s \in Sessions :
        /\ callbacks[s] = IF Accepted(s) THEN <<"monitor">> ELSE <<>>
        /\ Coroutine(s) # "network"
        /\ (pc[s] # "idle") <=> Accepted(s)
        /\ Cardinality(Outstanding(s)) + (IF s \in writing THEN 1 ELSE 0) <= 1

\* Both sessions are accepted; one loop is waiting for its snapshot write,
\* the other has not started yet.
C16_Witness ==
    \E s, o \in Sessions :
        /\ callbacks[s] = <<"monitor">> /\ pc[s] = "writing"
        /\ callbacks[o] = <<"monitor">> /\ pc[o] = "scheduled"

\* C17: in the host-metrics loop an iteration writes a frame if and only if
\* the value fetched is non-empty (an empty value: no frame, straight on to
\* the next fetch); in the network-metrics loop every iteration writes one
\* frame for the value fetched, empty or not.  In both loops a write on a
\* socket that is no longer open raises, sends nothing and ends the loop.
C17_WriteIffNonEmpty ==
    [][\A s \in Sessions :
          /\ (/\ Coroutine(s) = "monitor"
              /\ pc[s] = "fetching" /\ data[s].r # "none"
              /\ (pc'[s] # pc[s] \/ nfetch'[s] # nfetch[s]))
             => LET d == data[s] IN
                CASE d.r = "snap" ->
                       IF conn[s] = "open"
                       THEN /\ sent'[s] = Append(sent[s],
                                   [kind |-> "snap", text |-> "", k |-> d.k])
                            /\ pc'[s] = "writing"
                       ELSE /\ sent'[s] = sent[s]
                            /\ pc'[s] = "done"
                  [] d.r = "empty" ->
                       /\ sent'[s] = sent[s]
                       /\ pc'[s] \in {"fetching", "out"}
                       /\ pc'[s] = "fetching" => nfetch'[s] = nfetch[s] + 1
                  [] OTHER ->
                       /\ sent'[s] = sent[s]
                       /\ pc'[s] = "done"
          /\ (/\ Coroutine(s) = "network"
              /\ pc[s] = "net_fetching"
              /\ (pc'[s] # pc[s] \/ nfetch'[s] # nfetch[s]))
             => LET d == data'[s] IN
                /\ d.r \in {"snap", "empty", "error"}
                /\ d.k = nfetch[s]
                /\ nfetch'[s] = nfetch[s]
                /\ IF d.r # "error" /\ conn[s] = "open"
                   THEN /\ sent'[s] = Append(sent[s],
                               [kind |-> "net", text |-> d.r, k |-> d.k])
                        /\ pc'[s] = "net_writing"
                   ELSE /\ sent'[s] = sent[s]
                        /\ pc'[s] = "done"]_vars

\* The network loop of one session has written a frame for an empty value;
\* the host loop of another took up an empty value and wrote nothing.
C17_Witness ==
    \E s, o \in Sessions :
        /\ Coroutine(s) = "network"
        /\ \E i \in 1..Len(sent[s]) : sent[s][i].kind = "net" /\ sent[s][i].text = "empty"
        /\ Coroutine(o) = "monitor"
        /\ data[o].r = "empty" /\ pc[o] = "out"
        /\ Kinds(o, "snap") = {}

\* C18: a connect rejected because its id is not in the registry leaves the
\* shared state as it was: the registry and every worker are unchanged, the
\* handler's worker reference stays unset, and the on_close that follows on
\* that connection closes no worker.
C18_RejectLeavesSharedState ==
    /\ [](\A s \in Sessions :
            (conn[s] # "new" /\ request[s] # NoArg /\ worker_ref[s] # request[s][1])
            => (worker_ref[s] = None /\ callbacks[s] = <<>>))
    /\ [][\A s \in Sessions :
            /\ (/\ conn[s] = "new" /\ conn'[s] # "new"
                /\ request'[s] # NoArg
                /\ request'[s][1] \notin workers)
               => /\ UNCHANGED <<workers, wstate, whandler>>
                  /\ worker_ref'[s] = None
                  /\ conn'[s] = "closing"
            /\ (worker_ref[s] = None /\ onclose'[s] # onclose[s])
               => UNCHANGED <<workers, wstate, whandler>>]_vars

\* A connect with the unregistered id "ghost" was rejected and torn down while
\* one worker was pending in the registry and another was bound: both are as
\* they were.
C18_Witness ==
    \E s, o \in Sessions :
        /\ request[s] = <<"ghost">> /\ conn[s] = "closed" /\ onclose[s] = 1
        /\ Accepted(o) /\ wstate[worker_ref[o]] = "bound"
        /\ workers # {}

\* C19: no frame goes out on a session once its socket is no longer open: the
\* frames sent only grow by one frame at a time while the socket is open, a
\* snapshot taken up after the close is dropped by the failing write, and
\* what was sent is the acknowledgement followed by snapshots and replies.
C19_NoFrameAfterClose ==
    /\ [](\A s \in Sessions : \A i \in 1..Len(sent[s]) :
            /\ sent[s][i].kind \in {"ack", "snap", "echo"}
            /\ (sent[s][i].kind = "ack") <=> (i = 1))
    /\ [][\A s \in Sessions :
            /\ sent'[s] # sent[s] =>
                  /\ conn[s] \in {"new", "open"}
                  /\ conn'[s] = "open"
                  /\ Len(sent'[s]) = Len(sent[s]) + 1
                  /\ SubSeq(sent'[s], 1, Len(sent[s])) = sent[s]
            /\ conn[s] \notin {"new", "open"} => conn'[s] # "open"
            /\ (/\ pc[s] = "fetching" /\ data[s].r = "snap"
                /\ conn[s] # "open" /\ pc'[s] # pc[s])
               => (sent'[s] = sent[s] /\ pc'[s] = "done")]_vars

\* A session that had replied to an inbound frame was closed by the peer
\* during a fetch; the snapshot that came back was not sent.
C19_Witness ==
    \E s \in Sessions :
        /\ conn[s] = "closed"
        /\ pc[s] = "done"
        /\ data[s].r = "snap"
        /\ \A i \in Kinds(s, "snap") : sent[s][i].k # data[s].k
        /\ Kinds(s, "echo") # {}

====
